---- MODULE Spec2Model ----
(***************************************************************************)
(* The three Playwright verification scripts of the Line Bridge Simulator  *)
(* (verify_simulation, verify_boundary_conditions, verify_clusters) as one *)
(* state machine.  One run of one script is one behaviour: the script is   *)
(* chosen in Init, pc is the position of the interpreter in the script,    *)
(* and the page is an environment that emits console messages and page     *)
(* errors while the runner is inside a Playwright call.                    *)
(***************************************************************************)
EXTENDS Naturals, Sequences, FiniteSets

VARIABLES
    script,            \* which of the three scripts runs
    pc,                \* position of the interpreter
    ip,                \* index of the current step of Body(script) while pc = "body"
    waited,            \* milliseconds the current step has been waiting
    browser,           \* "none" | "live" | "closed" (browser.close()) | "killed" (playwright stopped)
    closeCalls,        \* number of executions of browser.close()
    handlers,          \* page.on("console") and page.on("pageerror") are registered
    console_messages,  \* the list console_messages
    page_errors,       \* the list page_errors
    emitted,           \* history: console messages the page has emitted
    thrown,            \* history: uncaught errors the page has thrown
    stdout,            \* what print() has written, one record per call
    artifact,          \* the screenshot file: "absent" | "prior" (an earlier run's) | "written"
    exc,               \* the exception now propagating (NoExc when none)
    failure,           \* history: the first exception raised in the run
    trace,             \* history: the Playwright steps attempted, with their outcome
    idx,               \* loop index of the for loops of the finally block
    ready              \* the page now meets the condition the current step waits for

vars == <<script, pc, ip, waited, browser, closeCalls, handlers, console_messages,
          page_errors, emitted, thrown, stdout, artifact, exc, failure, trace, idx, ready>>

-----------------------------------------------------------------------------
(* Bounds of the model *)

MaxConsole == 2        \* console messages the page emits in one run
MaxErrors == 1         \* uncaught errors the page throws in one run
PollInterval == 2500   \* milliseconds between two polls of a waiting step

(* Timeouts *)

LineCountTimeout == 5000       \* expect(...).not_to_have_text("0", timeout=5000)
ClusterWait == 3000            \* page.wait_for_timeout(3000)
DefaultExpectTimeout == 5000   \* expect(...) without timeout=
DefaultActionTimeout == 30000  \* click / select_option / scroll without timeout=

-----------------------------------------------------------------------------
(* The scripts *)

Simulation == "verify_simulation"
Boundary == "verify_boundary_conditions"
Clusters == "verify_clusters"
Scripts == {Simulation, Boundary, Clusters}

\* The Playwright calls between new_page() and browser.close(), in program order.
Body(s) ==
    CASE s = Simulation ->
           << [name |-> "goto",              kind |-> "nav",     timeout |-> 0],
              [name |-> "expect_heading",    kind |-> "expect",  timeout |-> DefaultExpectTimeout],
              [name |-> "click_start",       kind |-> "action",  timeout |-> DefaultActionTimeout],
              [name |-> "expect_line_count", kind |-> "expect",  timeout |-> LineCountTimeout],
              [name |-> "screenshot",        kind |-> "capture", timeout |-> 0] >>
      [] s = Boundary ->
           << [name |-> "goto",              kind |-> "nav",     timeout |-> 0],
              [name |-> "scroll_into_view",  kind |-> "action",  timeout |-> DefaultActionTimeout],
              [name |-> "select_option",     kind |-> "action",  timeout |-> DefaultActionTimeout],
              [name |-> "expect_value",      kind |-> "expect",  timeout |-> DefaultExpectTimeout],
              [name |-> "screenshot",        kind |-> "capture", timeout |-> 0] >>
      [] s = Clusters ->
           << [name |-> "goto",              kind |-> "nav",     timeout |-> 0],
              [name |-> "click_start",       kind |-> "action",  timeout |-> DefaultActionTimeout],
              [name |-> "wait_for_timeout",  kind |-> "sleep",   timeout |-> ClusterWait],
              [name |-> "click_pause",       kind |-> "action",  timeout |-> DefaultActionTimeout],
              [name |-> "screenshot",        kind |-> "capture", timeout |-> 0] >>

screenshot_path(s) ==
    IF s = Simulation THEN "jules-scratch/verification/simulation-running.png"
                      ELSE "jules-scratch/verification/verification.png"

\* The try / except / finally of verify_simulation; the other two scripts have none.
HasTry(s) == s = Simulation

\* The page.on(...) registrations of verify_simulation; the other two have none.
RegistersHandlers(s) == s = Simulation

-----------------------------------------------------------------------------
(* Exceptions *)

NoExc == [type |-> "None", msg |-> ""]

\* The exception a failing step raises.
ErrorOf(step) ==
    CASE step.kind = "nav"     -> [type |-> "NavigationError",      msg |-> "net::ERR_FILE_NOT_FOUND"]
      [] step.kind = "action"  -> [type |-> "ElementNotFoundError", msg |-> "Timeout exceeded: " \o step.name]
      [] step.kind = "expect"  -> [type |-> "AssertionError",       msg |-> "expected vs. observed: " \o step.name]
      [] step.kind = "capture" -> [type |-> "ScreenshotError",      msg |-> "screenshot failed"]
      [] OTHER                 -> NoExc

EnvironmentError == [type |-> "EnvironmentError", msg |-> "browser runtime unavailable"]

-----------------------------------------------------------------------------
(* The page: console messages and uncaught errors *)

ConsoleTypes == {"log", "error"}
ConsoleTexts == {"lines: 1"}
ConsoleMessages == [type : ConsoleTypes, text : ConsoleTexts]
PageErrors == [message : {"ReferenceError: canvas is not defined"}, stack : {"at index.html:1"}]

\* A handler that puts the newest message first.
ConsoleHandlerPrepends(log, msg) == <<"[" \o msg.type \o "] " \o msg.text>> \o log

\* lambda msg: console_messages.append(f"[{msg.type}] {msg.text}")
ConsoleHandler(log, msg) == Append(log, "[" \o msg.type \o "] " \o msg.text)

\* str(exc) of a Playwright Error is its message
Str(e) == e.message

\* lambda exc: page_errors.append(str(exc))
PageErrorHandler(log, e) == Append(log, Str(e))

\* Print loops that call into Playwright, so that callbacks run during them.
InPlaywrightCallOrPrint == pc \in {"body", "close", "console_entries", "error_entries"}

\* Playwright's sync API runs event callbacks only while the script is inside a
\* Playwright call: the calls of the body and browser.close().
InPlaywrightCall == pc \in {"body", "close"}

PageEmitting == browser = "live" /\ InPlaywrightCall

ConsoleEvent ==
    /\ PageEmitting
    /\ Len(emitted) < MaxConsole
    /\ \E msg \in ConsoleMessages :
          /\ emitted' = Append(emitted, msg)
          /\ console_messages' = IF handlers THEN ConsoleHandler(console_messages, msg)
                                             ELSE console_messages
    /\ UNCHANGED <<script, pc, ip, waited, browser, closeCalls, handlers, page_errors,
                   thrown, stdout, artifact, exc, failure, trace, idx, ready>>

PageErrorEvent ==
    /\ PageEmitting
    /\ Len(thrown) < MaxErrors
    /\ \E e \in PageErrors :
          /\ thrown' = Append(thrown, e)
          /\ page_errors' = IF handlers THEN PageErrorHandler(page_errors, e)
                                        ELSE page_errors
    /\ UNCHANGED <<script, pc, ip, waited, browser, closeCalls, handlers, console_messages,
                   emitted, stdout, artifact, exc, failure, trace, idx, ready>>

\* The page comes to meet the condition the current step waits for (the element
\* becomes actionable, the heading visible, the line count leaves "0").
PageSatisfies ==
    /\ browser = "live"
    /\ pc = "body"
    /\ Body(script)[ip].kind \in {"action", "expect"}
    /\ ~ready
    /\ ready' = TRUE
    /\ UNCHANGED <<script, pc, ip, waited, browser, closeCalls, handlers, console_messages,
                   page_errors, emitted, thrown, stdout, artifact, exc, failure, trace, idx>>

-----------------------------------------------------------------------------
(* Control flow *)

\* A try block that begins before the browser is launched.
HandlerOfWholeRun(s, p) == IF HasTry(s) THEN "except" ELSE "with_exit"

\* Where an exception raised at position p of script s is handled: the except
\* clause when p is inside the try block, else the exit of the with block.
HandlerOf(s, p) ==
    IF HasTry(s) /\ p \in {"body", "print_confirm"} THEN "except" ELSE "with_exit"

\* Where control goes when the last step of the body (the screenshot) returns.
AfterBody(s) == IF s = Simulation THEN "print_confirm" ELSE "close"

\* A successful run that goes straight to browser.close().
AfterConfirmSkipsLogs(s) == IF s = Simulation THEN "close" ELSE "with_exit"

\* Where control goes after print(f"Screenshot saved to {screenshot_path}").
AfterConfirm(s) == IF s = Simulation THEN "console_header" ELSE "with_exit"

\* Where control goes after browser.close().
AfterClose(s) == IF s = Simulation THEN "with_exit" ELSE "print_confirm"

Printed(src, text) == Append(stdout, [src |-> src, text |-> text])

Init ==
    /\ script \in Scripts
    /\ pc = "launch"
    /\ ip = 1
    /\ waited = 0
    /\ browser = "none"
    /\ closeCalls = 0
    /\ handlers = FALSE
    /\ console_messages = <<>>
    /\ page_errors = <<>>
    /\ emitted = <<>>
    /\ thrown = <<>>
    /\ stdout = <<>>
    /\ artifact \in {"absent", "prior"}
    /\ exc = NoExc
    /\ failure = NoExc
    /\ trace = <<>>
    /\ idx = 1
    /\ ready = FALSE

\* browser = p.chromium.launch(headless=True)
Launch ==
    /\ pc = "launch"
    /\ \/ /\ browser' = "live"
          /\ pc' = "new_page"
          /\ UNCHANGED <<exc, failure, ready>>
       \/ /\ exc' = EnvironmentError
          /\ failure' = EnvironmentError
          /\ pc' = HandlerOf(script, "launch")
          /\ UNCHANGED browser
    /\ UNCHANGED <<script, ip, waited, closeCalls, handlers, console_messages, page_errors,
                   emitted, thrown, stdout, artifact, trace, idx, ready>>

\* page = browser.new_page()
NewPage ==
    /\ pc = "new_page"
    /\ \/ /\ pc' = IF RegistersHandlers(script) THEN "register" ELSE "body"
          /\ UNCHANGED <<exc, failure, ready>>
       \/ /\ exc' = EnvironmentError
          /\ failure' = EnvironmentError
          /\ pc' = HandlerOf(script, "new_page")
    /\ UNCHANGED <<script, ip, waited, browser, closeCalls, handlers, console_messages,
                   page_errors, emitted, thrown, stdout, artifact, trace, idx, ready>>

\* console_messages = []; page_errors = []; page.on("console", ...); page.on("pageerror", ...)
Register ==
    /\ pc = "register"
    /\ console_messages' = <<>>
    /\ page_errors' = <<>>
    /\ handlers' = TRUE
    /\ pc' = "body"
    /\ UNCHANGED <<script, ip, waited, browser, closeCalls, emitted, thrown, stdout,
                   artifact, exc, failure, trace, idx, ready>>

CurrentStep == Body(script)[ip]

\* A waiting step polls again: its timeout has not elapsed.
StepWait ==
    /\ pc = "body"
    /\ CurrentStep.kind \in {"action", "expect", "sleep"}
    /\ waited < CurrentStep.timeout
    /\ CurrentStep.kind \in {"action", "expect"} => ~ready
    /\ waited' = waited + PollInterval
    /\ UNCHANGED <<script, pc, ip, browser, closeCalls, handlers, console_messages,
                   page_errors, emitted, thrown, stdout, artifact, exc, failure, trace, idx, ready>>

\* The current step returns normally: a navigation or a capture that succeeds, an
\* action or an expect whose condition the page meets, a sleep whose time has elapsed.
StepReturn ==
    /\ pc = "body"
    /\ CurrentStep.kind = "sleep" => waited >= CurrentStep.timeout
    /\ CurrentStep.kind \in {"action", "expect"} => ready
    /\ trace' = Append(trace, [name |-> CurrentStep.name, ok |-> TRUE, ms |-> waited])
    /\ artifact' = IF CurrentStep.kind = "capture" THEN "written" ELSE artifact
    /\ waited' = 0
    /\ ready' \in BOOLEAN
    /\ IF ip < Len(Body(script))
         THEN ip' = ip + 1 /\ pc' = "body"
         ELSE ip' = ip /\ pc' = AfterBody(script)
    /\ UNCHANGED <<script, browser, closeCalls, handlers, console_messages, page_errors,
                   emitted, thrown, stdout, exc, failure, idx>>

\* A failing step after which the script goes on with the next step.
StepRaiseContinues ==
    /\ pc = "body"
    /\ \/ CurrentStep.kind \in {"nav", "capture"}
       \/ CurrentStep.kind \in {"action", "expect"} /\ waited >= CurrentStep.timeout /\ ~ready
    /\ trace' = Append(trace, [name |-> CurrentStep.name, ok |-> FALSE, ms |-> waited])
    /\ failure' = ErrorOf(CurrentStep)
    /\ waited' = 0
    /\ IF ip < Len(Body(script))
         THEN ip' = ip + 1 /\ pc' = "body"
         ELSE ip' = ip /\ pc' = AfterBody(script)
    /\ UNCHANGED <<script, browser, closeCalls, handlers, console_messages, page_errors,
                   emitted, thrown, stdout, artifact, idx, ready, exc>>

\* A step whose wait has no timeout: only navigation and capture can fail.
StepRaiseNoTimeout ==
    /\ pc = "body"
    /\ CurrentStep.kind \in {"nav", "capture"}
    /\ trace' = Append(trace, [name |-> CurrentStep.name, ok |-> FALSE, ms |-> waited])
    /\ exc' = ErrorOf(CurrentStep)
    /\ failure' = ErrorOf(CurrentStep)
    /\ waited' = 0
    /\ pc' = HandlerOf(script, pc)
    /\ UNCHANGED <<script, ip, browser, closeCalls, handlers, console_messages, page_errors,
                   emitted, thrown, stdout, artifact, idx, ready>>

\* The current step raises: navigation and capture fail at once, an action or an
\* expect fails when its timeout has elapsed with its condition unmet, a sleep
\* never fails.
StepRaise ==
    /\ pc = "body"
    /\ \/ CurrentStep.kind \in {"nav", "capture"}
       \/ CurrentStep.kind \in {"action", "expect"} /\ waited >= CurrentStep.timeout /\ ~ready
    /\ trace' = Append(trace, [name |-> CurrentStep.name, ok |-> FALSE, ms |-> waited])
    /\ exc' = ErrorOf(CurrentStep)
    /\ failure' = ErrorOf(CurrentStep)
    /\ waited' = 0
    /\ pc' = HandlerOf(script, pc)
    /\ UNCHANGED <<script, ip, browser, closeCalls, handlers, console_messages, page_errors,
                   emitted, thrown, stdout, artifact, idx, ready>>

\* print(f"Screenshot saved to {screenshot_path}")
PrintConfirm ==
    /\ pc = "print_confirm"
    /\ stdout' = Printed("confirm", "Screenshot saved to " \o screenshot_path(script))
    /\ pc' = AfterConfirm(script)
    /\ UNCHANGED <<script, ip, waited, browser, closeCalls, handlers, console_messages,
                   page_errors, emitted, thrown, artifact, exc, failure, trace, idx, ready>>

\* An except clause after which the confirmation is still printed.
ExceptThenConfirm ==
    /\ pc = "except"
    /\ stdout' = Printed("error", "\nAn error occurred during Playwright execution: " \o exc.msg)
    /\ exc' = NoExc
    /\ pc' = "print_confirm"
    /\ UNCHANGED <<script, ip, waited, browser, closeCalls, handlers, console_messages,
                   page_errors, emitted, thrown, artifact, failure, trace, idx, ready>>

\* except Exception as e: print(f"\nAn error occurred during Playwright execution: {e}")
Except ==
    /\ pc = "except"
    /\ stdout' = Printed("error", "\nAn error occurred during Playwright execution: " \o exc.msg)
    /\ exc' = NoExc
    /\ pc' = "console_header"
    /\ UNCHANGED <<script, ip, waited, browser, closeCalls, handlers, console_messages,
                   page_errors, emitted, thrown, artifact, failure, trace, idx, ready>>

\* finally: print("\n--- Browser Console Logs ---")
ConsoleHeader ==
    /\ pc = "console_header"
    /\ stdout' = Printed("console_header", "\n--- Browser Console Logs ---")
    /\ idx' = 1
    /\ pc' = "console_entries"
    /\ UNCHANGED <<script, ip, waited, browser, closeCalls, handlers, console_messages,
                   page_errors, emitted, thrown, artifact, exc, failure, trace, ready>>

\* if console_messages: for msg in console_messages: print(msg)
\* else: print("No console messages were captured.")
ConsoleEntries ==
    /\ pc = "console_entries"
    /\ IF console_messages = <<>>
         THEN /\ stdout' = Printed("console_none", "No console messages were captured.")
              /\ idx' = 1
              /\ pc' = "errors_header"
         ELSE /\ stdout' = Printed("console_entry", console_messages[idx])
              /\ IF idx < Len(console_messages)
                   THEN idx' = idx + 1 /\ pc' = pc
                   ELSE idx' = 1 /\ pc' = "errors_header"
    /\ UNCHANGED <<script, ip, waited, browser, closeCalls, handlers, console_messages,
                   page_errors, emitted, thrown, artifact, exc, failure, trace, ready>>

\* print("\n--- Browser Page Errors ---")
ErrorsHeader ==
    /\ pc = "errors_header"
    /\ stdout' = Printed("errors_header", "\n--- Browser Page Errors ---")
    /\ idx' = 1
    /\ pc' = "error_entries"
    /\ UNCHANGED <<script, ip, waited, browser, closeCalls, handlers, console_messages,
                   page_errors, emitted, thrown, artifact, exc, failure, trace, ready>>

\* if page_errors: for err in page_errors: print(err)
\* else: print("No page errors were captured.")
ErrorEntries ==
    /\ pc = "error_entries"
    /\ IF page_errors = <<>>
         THEN /\ stdout' = Printed("errors_none", "No page errors were captured.")
              /\ idx' = 1
              /\ pc' = "close"
         ELSE /\ stdout' = Printed("errors_entry", page_errors[idx])
              /\ IF idx < Len(page_errors)
                   THEN idx' = idx + 1 /\ pc' = pc
                   ELSE idx' = 1 /\ pc' = "close"
    /\ UNCHANGED <<script, ip, waited, browser, closeCalls, handlers, console_messages,
                   page_errors, emitted, thrown, artifact, exc, failure, trace, ready>>

\* browser.close()
Close ==
    /\ pc = "close"
    /\ browser' = "closed"
    /\ closeCalls' = closeCalls + 1
    /\ pc' = AfterClose(script)
    /\ UNCHANGED <<script, ip, waited, handlers, console_messages, page_errors, emitted,
                   thrown, stdout, artifact, exc, failure, trace, idx, ready>>

\* The exit of "with sync_playwright()": Playwright stops, which ends a browser
\* that is still running; a propagating exception leaves the script.
WithExit ==
    /\ pc = "with_exit"
    /\ browser' = IF browser = "live" THEN "killed" ELSE browser
    /\ pc' = IF exc = NoExc THEN "done" ELSE "raised"
    /\ UNCHANGED <<script, ip, waited, closeCalls, handlers, console_messages, page_errors,
                   emitted, thrown, stdout, artifact, exc, failure, trace, idx, ready>>

RunnerStep ==
    \/ Launch \/ NewPage \/ Register
    \/ StepWait \/ StepReturn \/ StepRaise
    \/ PrintConfirm \/ Except
    \/ ConsoleHeader \/ ConsoleEntries \/ ErrorsHeader \/ ErrorEntries
    \/ Close \/ WithExit

Next == RunnerStep \/ ConsoleEvent \/ PageErrorEvent \/ PageSatisfies

Spec == Init /\ [][Next]_vars

\* The interpreter always takes its next step, and every timer advances.
FairSpec == Spec /\ WF_vars(RunnerStep)

Terminated == pc \in {"done", "raised"}

-----------------------------------------------------------------------------
(* Reading the histories *)

IsPrefix(a, b) == Len(a) <= Len(b) /\ \A i \in 1..Len(a) : a[i] = b[i]

\* The texts print() has written from the places named in srcs, in order.
Lines(out, srcs) ==
    LET sel == SelectSeq(out, LAMBDA l : l.src \in srcs)
    IN  [i \in 1..Len(sel) |-> sel[i].text]

\* The places print() has written from, in order.
Srcs(out) == [i \in 1..Len(out) |-> out[i].src]

\* Position of the first line written from src, 0 when there is none.
Pos(out, src) ==
    IF \E i \in 1..Len(out) : out[i].src = src
      THEN CHOOSE i \in 1..Len(out) : out[i].src = src /\ \A j \in 1..(i - 1) : out[j].src # src
      ELSE 0

Count(out, src) == Len(SelectSeq(out, LAMBDA l : l.src = src))

\* What one section of the finally block prints for a log.
SectionOf(header, none, entry, log) ==
    <<header>> \o (IF log = <<>> THEN <<none>> ELSE [i \in 1..Len(log) |-> entry])

\* The part of stdout the finally block has written.
TeardownOutput ==
    IF Pos(stdout, "console_header") = 0 THEN <<>>
    ELSE SubSeq(stdout, Pos(stdout, "console_header"), Len(stdout))

Launched == browser # "none"

InjectedFailures == {"NavigationError", "ElementNotFoundError", "AssertionError", "ScreenshotError"}

Attempts(name) == Len(SelectSeq(trace, LAMBDA t : t.name = name))

-----------------------------------------------------------------------------
(* C1 *)

\* C1: once the browser has been launched, browser.close() executes exactly once
\* on every exit path of each of the three scripts: on success and after a
\* navigation failure, an element not found, an assertion timeout or a
\* screenshot failure; it never executes twice.
C1_CloseExactlyOnce ==
    /\ closeCalls <= 1
    /\ (Terminated /\ Launched /\ failure.type \in InjectedFailures \cup {"None"})
          => closeCalls = 1

-----------------------------------------------------------------------------
(* C2 *)

\* C2: in verify_simulation and verify_boundary_conditions a NavigationError,
\* ElementNotFoundError or AssertionError raised by a step is caught by the run,
\* its message is printed to standard output exactly once, no step is attempted
\* twice, teardown executes afterwards and the run ends normally.
C2_ErrorsCaughtAndPrinted ==
    (script \in {Simulation, Boundary} /\ Terminated
       /\ failure.type \in {"NavigationError", "ElementNotFoundError", "AssertionError"})
    => /\ pc = "done"
       /\ Lines(stdout, {"error"}) =
             <<"\nAn error occurred during Playwright execution: " \o failure.msg>>
       /\ \A i \in 1..Len(trace) : Attempts(trace[i].name) = 1
       /\ closeCalls = 1

-----------------------------------------------------------------------------
(* C3 *)

ConsoleHeaderLine == [src |-> "console_header", text |-> "\n--- Browser Console Logs ---"]
ConsoleNoneLine == [src |-> "console_none", text |-> "No console messages were captured."]
ErrorsHeaderLine == [src |-> "errors_header", text |-> "\n--- Browser Page Errors ---"]
ErrorsNoneLine == [src |-> "errors_none", text |-> "No page errors were captured."]

\* What the finally block prints for the logs cm and pe.
ExpectedTeardown(cm, pe) ==
    <<ConsoleHeaderLine>>
    \o (IF cm = <<>> THEN <<ConsoleNoneLine>>
                     ELSE [i \in 1..Len(cm) |-> [src |-> "console_entry", text |-> cm[i]]])
    \o <<ErrorsHeaderLine>>
    \o (IF pe = <<>> THEN <<ErrorsNoneLine>>
                     ELSE [i \in 1..Len(pe) |-> [src |-> "errors_entry", text |-> pe[i]]])

\* C3: in verify_simulation teardown is unconditional and ordered.  Whether the
\* steps of the try block succeeded or raised, the run prints the console-log
\* section, then the page-error section, and only then closes the browser; for
\* each log, as it stands when its section is printed, either it is empty and
\* the "none captured" marker is printed, or every entry is printed once, in
\* order, with no marker.
C3_TeardownSequence ==
    [][script = Simulation =>
        /\ (pc = "error_entries" /\ pc' = "close")
              => TeardownOutput' = ExpectedTeardown(console_messages', page_errors')
        /\ (closeCalls' # closeCalls)
              => /\ pc = "close" /\ closeCalls = 0
                 /\ 0 < Pos(stdout, "console_header")
                 /\ Pos(stdout, "console_header") < Pos(stdout, "errors_header")
                 /\ stdout[Len(stdout)].src \in {"errors_none", "errors_entry"}
        /\ closeCalls > 0 => stdout' = stdout
        /\ (Terminated' /\ handlers')
              => closeCalls' = 1 /\ browser' = "closed"]_vars

C3_Witness ==
    /\ script = Simulation
    /\ browser = "closed"
    /\ failure.type = "AssertionError"
    /\ Count(stdout, "console_entry") = 2
    /\ Count(stdout, "errors_none") = 1

-----------------------------------------------------------------------------
(* C4 *)

\* C4: in every run of each of the three scripts the console handler and the
\* page-error handler are attached before page.goto is called, and every
\* console message and uncaught error the page emits has its entry in its log.
C4_SinksBeforeNavigation ==
    /\ (pc = "body" \/ trace # <<>>) => handlers
    /\ Len(console_messages) = Len(emitted)
    /\ Len(page_errors) = Len(thrown)

-----------------------------------------------------------------------------
(* C5 *)

-----------------------------------------------------------------------------
(* C6 *)

\* C6: when launching the browser or opening the page fails, the run aborts at
\* that point: no navigation, interaction or capture step is attempted, no
\* screenshot is written and nothing is printed.
C6_AcquisitionFatal ==
    failure.type = "EnvironmentError"
    => /\ pc \in {"with_exit", "raised"}
       /\ trace = <<>>
       /\ artifact # "written"
       /\ stdout = <<>>

C6_Witness ==
    /\ script = Simulation
    /\ pc = "raised"
    /\ failure.type = "EnvironmentError"
    /\ browser = "killed"

-----------------------------------------------------------------------------
(* C7 *)

-----------------------------------------------------------------------------
(* C8 *)

\* The states of the run: 0 Idle, 1 Acquiring, 2 Navigated, 3 Interacting,
\* 4 Capturing, 5 TornDown.
Phase(p, i, b) ==
    CASE p = "launch"                    -> 0
      [] p \in {"new_page", "register"}  -> 1
      [] p = "body" /\ i = 1             -> 1
      [] p = "body" /\ i = 2             -> 2
      [] p = "body" /\ i \in {3, 4}      -> 3
      [] p = "body" /\ i = 5             -> 4
      [] p = "print_confirm" /\ b = "live" -> 4
      [] OTHER                           -> 5

\* The steps each script must have completed before its screenshot.
Required(s) ==
    CASE s = Simulation -> <<"goto", "expect_heading", "click_start", "expect_line_count">>
      [] s = Boundary   -> <<"goto", "scroll_into_view", "select_option", "expect_value">>
      [] s = Clusters   -> <<"goto", "click_start", "wait_for_timeout", "click_pause">>

Names(tr) == [i \in 1..Len(tr) |-> tr[i].name]

\* C8: every run moves through Idle, Acquiring, Navigated, Interacting,
\* Capturing, TornDown in that order, one state at a time, the only other
\* transition being from any state directly to TornDown after an error; in
\* TornDown, and once the browser is released, no step executes.  A step is
\* attempted only when every step before it has succeeded, and the screenshot
\* is written only after navigation and every interaction and assertion of the
\* script has succeeded (for verify_clusters with the 3000 ms wait elapsed).
C8_Sequential ==
    [][/\ Phase(pc', ip', browser') \in
             {Phase(pc, ip, browser), Phase(pc, ip, browser) + 1, 5}
       /\ Phase(pc', ip', browser') \notin
             {Phase(pc, ip, browser), Phase(pc, ip, browser) + 1} => failure' # NoExc
       /\ Phase(pc, ip, browser) = 5
             => Phase(pc', ip', browser') = 5 /\ trace' = trace /\ artifact' = artifact
       /\ browser \in {"closed", "killed"}
             => browser' = browser /\ trace' = trace /\ artifact' = artifact
       /\ IsPrefix(Names(trace'), Required(script) \o <<"screenshot">>)
       /\ \A i \in 1..Len(trace') : i < Len(trace') => trace'[i].ok
       /\ artifact' = "written"
             => /\ Names(trace') = Required(script) \o <<"screenshot">>
                /\ \A i \in 1..Len(trace') : trace'[i].ok
                /\ script = Clusters => trace'[3].ms >= 3000]_vars

C8_Witness ==
    /\ script = Clusters
    /\ pc = "done"
    /\ artifact = "written"
    /\ closeCalls = 1

-----------------------------------------------------------------------------
(* C9 *)

\* C9: every run ends, with the browser released, and verify_simulation, once
\* its handlers are registered, with browser.close() executed; an action or an
\* assertion whose condition never becomes true ends in a failure once its
\* timeout has elapsed (5000 ms for the line count), never in an endless wait.
C9_Terminates ==
    <>(/\ Terminated
       /\ browser # "live"
       /\ (script = Simulation /\ handlers) => browser = "closed"
       /\ failure.type \in {"AssertionError", "ElementNotFoundError"}
             => /\ trace[Len(trace)].ok = FALSE
                /\ trace[Len(trace)].ms >=
                      (IF failure.type = "AssertionError" THEN 5000 ELSE 30000))

C9_Witness ==
    /\ script = Simulation
    /\ pc = "done"
    /\ failure.type = "AssertionError"
    /\ trace[Len(trace)].name = "expect_line_count"
    /\ trace[Len(trace)].ms >= 5000
    /\ Count(stdout, "error") = 1
    /\ browser = "closed"

-----------------------------------------------------------------------------
(* C10 *)

ReadingLogs == pc \in {"console_header", "console_entries", "errors_header", "error_entries"}

\* C10 as stated: the logs are read only after the session has ended, so at the
\* end of a run of verify_simulation every entry ever appended to a log is among
\* the entries printed.
C10_AllEntriesPrinted ==
    (script = Simulation /\ Terminated /\ closeCalls = 1)
    => /\ Lines(stdout, {"console_entry"}) = console_messages
       /\ Lines(stdout, {"errors_entry"}) = page_errors

\* C10 as amended: in verify_simulation the page's event callbacks are the only
\* writers of the two logs; the logs are printed after the last interaction step
\* and before browser.close(); no entry is appended while they are printed, and
\* every entry appended before printing began is printed.
C10_ReadAfterInteraction ==
    [][script = Simulation =>
        /\ console_messages' # console_messages
              => emitted' # emitted /\ pc' = pc /\ stdout' = stdout
        /\ page_errors' # page_errors
              => thrown' # thrown /\ pc' = pc /\ stdout' = stdout
        /\ ReadingLogs
              => console_messages' = console_messages /\ page_errors' = page_errors
        /\ Pos(stdout, "console_header") > 0 => trace' = trace
        /\ ReadingLogs => browser = "live" /\ closeCalls = 0
        /\ (pc = "error_entries" /\ pc' = "close")
              => /\ Lines(stdout', {"console_entry"}) = console_messages'
                 /\ Lines(stdout', {"errors_entry"}) = page_errors']_vars

C10_Witness ==
    /\ script = Simulation
    /\ browser = "closed"
    /\ Len(console_messages) = 2
    /\ Lines(stdout, {"console_entry"}) = <<console_messages[1]>>

====
